---- MODULE Spec2Model ----
(***************************************************************************)
(* file_manager_integration.file_managers: the file manager classes, their *)
(* capability model and the two installers (install_script, install_action)*)
(* acting on the file manager's configuration directory.                   *)
(*                                                                         *)
(* One file manager object is constructed (Init) and its methods are then  *)
(* called any number of times.  The filesystem below the object's          *)
(* config_path is the state; every call is recorded with its arguments,    *)
(* its outcome (return value or exception raised) and the filesystem it    *)
(* started from.                                                           *)
(***************************************************************************)
EXTENDS Integers, Sequences, FiniteSets, TLC

\* ------------------------------------------------------------------------
\* Bounds
\* ------------------------------------------------------------------------

\* number of distinct non-empty file names usable in the scripts directory
NumNames == 3
\* number of distinct source script paths
NumSources == 2
\* number of distinct action names
NumActionNames == 1

Names == 1..NumNames
\* display_name values: 0 is the empty string "", 1..NumNames are file names
EmptyName == 0
DisplayNames == {EmptyName} \cup Names
Sources == 1..NumSources
ActionNames == 1..NumActionNames

\* odd source paths name a file that is on disk, even ones name no file
SourceOnDisk(s) == s % 2 = 1

\* ------------------------------------------------------------------------
\* Constants of the module
\* ------------------------------------------------------------------------

ACTIONS_KIND == "actions"
SCRIPTS == "scripts"

Lit(s) == [t |-> "lit", v |-> s]
Ph(k) == [t |-> "ph", v |-> k]

NEMO_ACTION_TEMPLATE ==
    << Lit("[Nemo Action]\nName="), Ph("name"),
       Lit("\nComment="), Ph("comment"),
       Lit("\nExec="), Ph("executable"),
       Lit(" %F\nSelection=S\nExtensions="), Ph("extensions"),
       Lit(";\nQuote=double\n") >>

\* ------------------------------------------------------------------------
\* Classes
\* ------------------------------------------------------------------------

FileManagers ==
    {"Nautilus", "Caja", "Nemo", "KdefileManager", "PcManFm", "Thunar"}

\* the base class named in each class statement
BaseClass(c) ==
    CASE c = "Nautilus" -> "BaseFileManager"
      [] c = "Caja" -> "Nautilus"
      [] c = "Nemo" -> "Nautilus"
      [] c = "KdefileManager" -> "BaseFileManager"
      [] c = "PcManFm" -> "BaseFileManager"
      [] c = "Thunar" -> "BaseFileManager"
      [] OTHER -> "object"

\* the class attribute `capabilities`, as overridden by each class
capabilities(c) ==
    CASE c = "Nautilus" -> {SCRIPTS}
      [] c = "Caja" -> {ACTIONS_KIND, SCRIPTS}
      [] c = "Nemo" -> {ACTIONS_KIND, SCRIPTS}
      [] c = "KdefileManager" -> {ACTIONS_KIND}
      [] c = "PcManFm" -> {ACTIONS_KIND}
      [] c = "Thunar" -> {ACTIONS_KIND}
      [] OTHER -> {}

\* the methods each class statement defines itself
DefinesMethod(c, m) ==
    CASE c = "BaseFileManager" ->
            m \in {"is_installed", "check_installation",
                   "check_actions_support", "check_scripts_support"}
      [] c = "Nautilus" -> m = "install_script"
      [] c \in {"Caja", "Nemo", "KdefileManager", "PcManFm", "Thunar"} ->
            m = "install_action"
      [] OTHER -> FALSE

\* attribute lookup along the inheritance chain: the class whose method
\* is called, or "object" when the lookup ends in AttributeError
RECURSIVE LookupMethod(_, _)
LookupMethod(c, m) ==
    IF c = "object" THEN "object"
    ELSE IF DefinesMethod(c, m) THEN c
    ELSE LookupMethod(BaseClass(c), m)

\* ------------------------------------------------------------------------
\* Outcomes of a call
\* ------------------------------------------------------------------------

Returned(v) == [exc |-> "none", msg |-> "", ret |-> v]
Raised(e, m) == [exc |-> e, msg |-> m, ret |-> "-"]

NotInstalled == Raised("ValueError", "is probably not installed!")
ActionsUnsupported == Raised("ValueError", "Actions not supported in")
ScriptsUnsupported == Raised("ValueError", "Scripts not supported in")
DirectoryUnavailable == Raised("ValueError", "not available!")
TargetExists == Raised("ValueError", "already exists!")
NotImplementedError == Raised("NotImplementedError", "")
AttributeError == Raised("AttributeError", "object has no attribute")
FileExistsError == Raised("FileExistsError", "File exists")
FileNotFoundError == Raised("FileNotFoundError", "No such file or directory")

\* ------------------------------------------------------------------------
\* The filesystem below config_path
\* ------------------------------------------------------------------------

NoEntry == [kind |-> "none", to |-> 0]
FileEntry == [kind |-> "file", to |-> 0]
DirEntry == [kind |-> "dir", to |-> 0]
Link(s) == [kind |-> "link", to |-> s]

EmptyDir == [n \in Names |-> NoEntry]
NoFiles == [a \in ActionNames |-> <<>>]

\* pathlib.Path.exists(): follows symbolic links
PathExists(e) ==
    \/ e.kind \in {"file", "dir"}
    \/ e.kind = "link" /\ SourceOnDisk(e.to)

\* pathlib.Path.is_symlink()
IsSymlink(e) == e.kind = "link"

VARIABLES
    fm,        \* the class of the file manager object
    fs,        \* the filesystem below config_path
    call,      \* the last call and its arguments
    outcome,   \* what the last call returned or raised
    warned,    \* the entries the last call logged a warning for
    pre        \* the filesystem when the last call started

vars == <<fm, fs, call, outcome, warned, pre>>

NoCall ==
    [op |-> "none", src |-> 0, dn |-> 0, fcd |-> FALSE, fre |-> FALSE,
     an |-> 0, keys |-> {}, probe |-> "-"]

\* the filesystems the first call can find: files and directories the user
\* keeps in the scripts directory, no action files yet
Filesystems ==
    [configDir : BOOLEAN,
     scriptsDir : {"missing", "dir", "file"},
     entries : [Names -> {NoEntry, FileEntry, DirEntry}],
     actionsDir : BOOLEAN,
     actionFiles : {NoFiles}]

\* a directory has entries only if it exists, and it exists only below
\* an existing config_path
WellFormed(f) ==
    /\ f.scriptsDir # "dir" => f.entries = EmptyDir
    /\ ~f.configDir => f.scriptsDir = "missing" /\ ~f.actionsDir

Res(f, o, w) == [fs |-> f, outcome |-> o, warned |-> w]

\* ------------------------------------------------------------------------
\* BaseFileManager
\* ------------------------------------------------------------------------

\* subprocess.run((executable, "--version"), check=True) inside
\* try/except subprocess.CalledProcessError
ProbeOutcomes == {"exit_zero", "exit_nonzero", "spawn_failure"}

is_installed(probe) ==
    CASE probe = "exit_zero" -> Returned("True")
      [] probe = "exit_nonzero" -> Returned("False")
      [] probe = "spawn_failure" -> FileNotFoundError

check_installation(f) ==
    IF ~f.configDir THEN NotInstalled ELSE Returned("None")

check_actions_support(c, f) ==
    IF ACTIONS_KIND \notin capabilities(c) THEN ActionsUnsupported
    ELSE check_installation(f)

check_scripts_support(c, f) ==
    IF SCRIPTS \notin capabilities(c) THEN ScriptsUnsupported
    ELSE check_installation(f)

\* ------------------------------------------------------------------------
\* Nautilus.install_script
\* ------------------------------------------------------------------------

\* options.get('force_create_directories', False)
ForceCreateDirectories(options) == options.fcd

\* a rename forced whether or not the caller asked for it
ForceRenameAlways(options) == TRUE

\* options.get('force_rename_existing', False)
ForceRenameExisting(options) == options.fre

\* self.scripts_path.mkdir(), called when scripts_path is not a directory
Mkdir(f) ==
    IF f.scriptsDir = "missing"
    THEN Res([f EXCEPT !.scriptsDir = "dir", !.entries = EmptyDir],
             Returned("None"), {})
    ELSE Res(f, FileExistsError, {})

\* (self.scripts_path / display_name).exists(); joining the empty name
\* gives scripts_path itself
TargetExistsCheck(f, dn) ==
    IF dn = EmptyName THEN f.scriptsDir # "missing"
    ELSE PathExists(f.entries[dn])

\* the entries of scripts_path.glob("*") that are symbolic links whose
\* readlink() equals the source path
LinksToSource(entries, src) ==
    {n \in Names : IsSymlink(entries[n]) /\ entries[n].to = src}

\* a rename that leaves the entry under its old name as well
RenameKeepingSource(entries, from, to) ==
    [n \in Names |-> IF n = to THEN entries[from] ELSE entries[n]]

\* os.rename(single_path, target_link_path): replaces whatever non-directory
\* entry is at the target; renaming a path to itself does nothing
Rename(entries, from, to) ==
    IF from = to THEN entries
    ELSE [n \in Names |->
            IF n = to THEN entries[from]
            ELSE IF n = from THEN NoEntry
            ELSE entries[n]]

\* os.symlink(absolute_source_path, target_link_path)
Symlink(f, src, dn, w) ==
    IF f.entries[dn].kind # "none" THEN Res(f, FileExistsError, w)
    ELSE Res([f EXCEPT !.entries[dn] = Link(src)], Returned("None"), w)

\* the body from the target path on (lines 175-196), in a scripts
\* directory that exists
InstallIntoDirectory(f, src, options) ==
    LET dn == options.dn
        found == LinksToSource(f.entries, src)
    IN  IF TargetExistsCheck(f, dn) THEN {Res(f, TargetExists, {})}
        ELSE IF ForceRenameExisting(options) /\ found # {}
        THEN \* the loop returns at the first match in directory order
             {Res([f EXCEPT !.entries = Rename(@, n, dn)],
                  Returned("None"), {}) : n \in found}
        ELSE \* one warning for each match, then the new link
             {Symlink(f, src, dn, found)}

\* Nautilus.install_script(absolute_source_path, **options) called on an
\* object of class c: the set of results the call can have
NautilusInstallScript(c, f, src, options) ==
    LET chk == check_scripts_support(c, f)
    IN  IF chk.exc # "none" THEN {Res(f, chk, {})}
        ELSE IF f.scriptsDir = "dir"
        THEN InstallIntoDirectory(f, src, options)
        ELSE IF ForceCreateDirectories(options)
        THEN LET made == Mkdir(f)
             IN  IF made.outcome.exc # "none" THEN {made}
                 ELSE InstallIntoDirectory(made.fs, src, options)
        ELSE {Res(f, DirectoryUnavailable, {})}

\* ------------------------------------------------------------------------
\* install_action
\* ------------------------------------------------------------------------

\* str(source_path)
SourcePath(s) == "/home/u/tools/script" \o ToString(s) \o ".sh"

\* the keyword arguments a caller may add to name=...
OptionalKeys == {"comment", "extensions", "executable"}

OptionValue(k, an) ==
    CASE k = "name" -> "action" \o ToString(an)
      [] k = "comment" -> "A comment"
      [] k = "extensions" -> "txt;md"
      [] k = "executable" -> "/usr/bin/other"
      [] OTHER -> ""

\* the **options dictionary of a call install_action(src, name=an, ...)
Options(an, keys) == [k \in keys \cup {"name"} |-> OptionValue(k, an)]

\* string.Template.safe_substitute: a placeholder with no value in the
\* mapping stays as it is written in the template
SafeSubstitute(template, mapping) ==
    [i \in 1..Len(template) |->
        IF template[i].t = "lit" THEN template[i].v
        ELSE IF template[i].v \in DOMAIN mapping THEN mapping[template[i].v]
        ELSE "${" \o template[i].v \o "}"]

\* options["exec"] = str(source_path)
WithExecutable(options, src) ==
    [k \in DOMAIN options \cup {"exec"} |->
        IF k = "exec" THEN SourcePath(src) ELSE options[k]]

\* Nemo.install_action(source_path, **options)
NemoInstallAction(c, f, src, an, keys) ==
    LET chk == check_actions_support(c, f)
        options == WithExecutable(Options(an, keys), src)
    IN  IF chk.exc # "none" THEN {Res(f, chk, {})}
        ELSE IF ~f.actionsDir THEN {Res(f, FileNotFoundError, {})}
        ELSE {Res([f EXCEPT !.actionFiles[an] =
                       SafeSubstitute(NEMO_ACTION_TEMPLATE, options)],
                  Returned("None"), {})}

\* an install_action that checks support and installation before raising
CajaInstallActionChecked(c, f) ==
    LET chk == check_actions_support(c, f)
    IN  IF chk.exc # "none" THEN {Res(f, chk, {})}
        ELSE {Res(f, NotImplementedError, {})}

\* Caja.install_action
CajaInstallAction(c, f) == {Res(f, NotImplementedError, {})}

\* KdefileManager.install_action
KdefileManagerInstallAction(c, f) == {Res(f, NotImplementedError, {})}

\* PcManFm.install_action
PcManFmInstallAction(c, f) == {Res(f, NotImplementedError, {})}

\* Thunar.install_action
ThunarInstallAction(c, f) == {Res(f, NotImplementedError, {})}

\* ------------------------------------------------------------------------
\* Calls on the file manager object
\* ------------------------------------------------------------------------

\* fm_object.install_script(src, display_name=dn, ...)
CallInstallScript(c, f, src, options) ==
    LET cls == LookupMethod(c, "install_script")
    IN  IF cls = "Nautilus" THEN NautilusInstallScript(c, f, src, options)
        ELSE {Res(f, AttributeError, {})}

\* fm_object.install_action(src, name=an, ...)
CallInstallAction(c, f, src, an, keys) ==
    LET cls == LookupMethod(c, "install_action")
    IN  CASE cls = "Nemo" -> NemoInstallAction(c, f, src, an, keys)
          [] cls = "Caja" -> CajaInstallAction(c, f)
          [] cls = "KdefileManager" -> KdefileManagerInstallAction(c, f)
          [] cls = "PcManFm" -> PcManFmInstallAction(c, f)
          [] cls = "Thunar" -> ThunarInstallAction(c, f)
          [] OTHER -> {Res(f, AttributeError, {})}

\* fm_object.is_installed()
CallIsInstalled(c, f, probe) ==
    LET cls == LookupMethod(c, "is_installed")
    IN  IF cls = "BaseFileManager" THEN {Res(f, is_installed(probe), {})}
        ELSE {Res(f, AttributeError, {})}

\* the object is constructed; the scripts directory holds what the user
\* keeps there
InitScripts ==
    /\ fm \in FileManagers
    /\ fs \in {f \in Filesystems : WellFormed(f)}
    /\ call = NoCall
    /\ outcome = Returned("None")
    /\ warned = {}
    /\ pre = fs

\* the object is constructed; the scripts directory, if there, is empty
InitActions ==
    /\ fm \in FileManagers
    /\ fs \in {f \in Filesystems : WellFormed(f) /\ f.entries = EmptyDir}
    /\ call = NoCall
    /\ outcome = Returned("None")
    /\ warned = {}
    /\ pre = fs

InstallScript ==
    \E src \in Sources, dn \in DisplayNames, fcd \in BOOLEAN, fre \in BOOLEAN :
        LET options == [dn |-> dn, fcd |-> fcd, fre |-> fre]
        IN  \E r \in CallInstallScript(fm, fs, src, options) :
                /\ fs' = r.fs
                /\ outcome' = r.outcome
                /\ warned' = r.warned
                /\ call' = [NoCall EXCEPT !.op = "install_script",
                                          !.src = src, !.dn = dn,
                                          !.fcd = fcd, !.fre = fre]
                /\ pre' = fs
                /\ UNCHANGED fm

InstallAction ==
    \E src \in Sources, an \in ActionNames, keys \in SUBSET OptionalKeys :
        \E r \in CallInstallAction(fm, fs, src, an, keys) :
            /\ fs' = r.fs
            /\ outcome' = r.outcome
            /\ warned' = r.warned
            /\ call' = [NoCall EXCEPT !.op = "install_action",
                                      !.src = src, !.an = an, !.keys = keys]
            /\ pre' = fs
            /\ UNCHANGED fm

IsInstalled ==
    \E probe \in ProbeOutcomes :
        \E r \in CallIsInstalled(fm, fs, probe) :
            /\ fs' = r.fs
            /\ outcome' = r.outcome
            /\ warned' = r.warned
            /\ call' = [NoCall EXCEPT !.op = "is_installed", !.probe = probe]
            /\ pre' = fs
            /\ UNCHANGED fm

NextScripts == InstallScript

NextActions == InstallAction \/ IsInstalled

\* any sequence of install_script calls on one object
ScriptsSpec == InitScripts /\ [][NextScripts]_vars

\* any sequence of install_action and is_installed calls on one object
ActionsSpec == InitActions /\ [][NextActions]_vars

TypeOK ==
    /\ fm \in FileManagers
    /\ WellFormed(fs)
    /\ fs.scriptsDir \in {"missing", "dir", "file"}
    /\ \A n \in Names : fs.entries[n].kind \in {"none", "file", "dir", "link"}
    /\ warned \subseteq Names

\* ------------------------------------------------------------------------
\* Properties
\* ------------------------------------------------------------------------

Ok == Returned("None")

\* the names in use in a directory
Occupied(entries) == {n \in Names : entries[n].kind # "none"}

\* the last call was install_script and reached Nautilus.install_script
ScriptCall ==
    /\ call.op = "install_script"
    /\ LookupMethod(fm, "install_script") # "object"

\* the scripts directory held, when the call started, a link to the source
\* under a name other than the display name
HeldLinkUnderOtherName ==
    /\ ScriptCall
    /\ pre.scriptsDir = "dir"
    /\ \E n \in Names \ {call.dn} : pre.entries[n] = Link(call.src)

\* no entry of any kind was at scripts directory / display_name
TargetWasFree ==
    /\ call.dn \in Names
    /\ pre.entries[call.dn].kind = "none"

\* C1: for every file manager and both install operations, an operation
\* whose kind is not in the capabilities fails with the "not supported"
\* ValueError and leaves the filesystem unchanged; an operation whose kind
\* is in the capabilities does not fail with that error.
C1_UnsupportedAlwaysRaisesUnsupported ==
    call.op \in {"install_action", "install_script"} =>
        LET kind == IF call.op = "install_action" THEN ACTIONS_KIND
                    ELSE SCRIPTS
            unsupported == IF call.op = "install_action"
                           THEN ActionsUnsupported ELSE ScriptsUnsupported
        IN  IF kind \notin capabilities(fm)
            THEN outcome = unsupported /\ fs = pre
            ELSE outcome # unsupported

\* C2: install_script raises "already exists!" and changes nothing whenever
\* an entry of any kind (file, directory, link to an existing or to a
\* missing file) is at scripts directory / display_name.
C2_OccupiedTargetRaisesTargetExists ==
    ( /\ ScriptCall
      /\ pre.scriptsDir = "dir"
      /\ call.dn \in Names
      /\ pre.entries[call.dn].kind # "none" )
    => outcome = TargetExists /\ fs = pre

\* C3 as stated: with force_rename_existing, a link to the source under
\* another name and a free display name, one such link is moved to the
\* display name, nothing else changes, and afterwards exactly one link in
\* the scripts directory points at the source.
C3_ExactlyOneLinkRemains ==
    (HeldLinkUnderOtherName /\ TargetWasFree /\ call.fre) =>
        /\ outcome = Ok
        /\ \E n \in Names \ {call.dn} :
              /\ pre.entries[n] = Link(call.src)
              /\ fs.entries[call.dn] = Link(call.src)
              /\ fs.entries[n] = NoEntry
              /\ \A m \in Names \ {n, call.dn} : fs.entries[m] = pre.entries[m]
        /\ Cardinality(LinksToSource(fs.entries, call.src)) = 1

\* C3 as amended: with force_rename_existing, a link to the source under
\* another name and a free display name, one such link is moved to the
\* display name, nothing else changes, and the number of links to the
\* source is what it was before the call (one, if it was one).
C3_RenamedNotDuplicated ==
    (HeldLinkUnderOtherName /\ TargetWasFree /\ call.fre) =>
        /\ outcome = Ok
        /\ \E n \in Names \ {call.dn} :
              /\ pre.entries[n] = Link(call.src)
              /\ fs.entries[call.dn] = Link(call.src)
              /\ fs.entries[n] = NoEntry
              /\ \A m \in Names \ {n, call.dn} : fs.entries[m] = pre.entries[m]
        /\ Cardinality(LinksToSource(fs.entries, call.src))
              = Cardinality(LinksToSource(pre.entries, call.src))
        /\ warned = {}

\* a forced rename of the only link to the source has happened
C3_Witness ==
    /\ HeldLinkUnderOtherName /\ TargetWasFree /\ call.fre
    /\ outcome = Ok
    /\ Cardinality(LinksToSource(pre.entries, call.src)) = 1
    /\ fs.entries[call.dn] = Link(call.src)

\* C4 as stated: without force_rename_existing and with a link to the
\* source under another name, the call returns, every entry is kept, one
\* link to the source is added at the display name, and a warning is
\* logged for the existing link.
C4_DuplicateAlwaysCreated ==
    (HeldLinkUnderOtherName /\ ~call.fre) =>
        /\ outcome = Ok
        /\ call.dn \in Names
        /\ \A n \in Names \ {call.dn} : fs.entries[n] = pre.entries[n]
        /\ fs.entries[call.dn] = Link(call.src)
        /\ Cardinality(LinksToSource(fs.entries, call.src))
              = Cardinality(LinksToSource(pre.entries, call.src)) + 1
        /\ warned = LinksToSource(pre.entries, call.src)

\* C4 as amended: the same, when no entry is at the display name.
C4_DuplicateCreatedAtFreeName ==
    (HeldLinkUnderOtherName /\ TargetWasFree /\ ~call.fre) =>
        /\ outcome = Ok
        /\ \A n \in Names \ {call.dn} : fs.entries[n] = pre.entries[n]
        /\ fs.entries[call.dn] = Link(call.src)
        /\ Cardinality(LinksToSource(fs.entries, call.src))
              = Cardinality(LinksToSource(pre.entries, call.src)) + 1
        /\ warned = LinksToSource(pre.entries, call.src)
        /\ warned # {}

\* a second link to an already linked source has been created
C4_Witness ==
    /\ HeldLinkUnderOtherName /\ TargetWasFree /\ ~call.fre
    /\ outcome = Ok
    /\ Cardinality(LinksToSource(fs.entries, call.src)) = 2
    /\ warned # {}

\* C5: Nemo.install_action(source_path, name, comment, extensions) writes
\* the template with every supplied field substituted and the executable
\* placeholder filled with the source path; only placeholders without a
\* value stay literal.
C5_ExecutableIsSourcePath ==
    ( /\ call.op = "install_action"
      /\ fm = "Nemo"
      /\ "executable" \notin call.keys
      /\ outcome = Ok )
    => fs.actionFiles[call.an] =
          SafeSubstitute(NEMO_ACTION_TEMPLATE,
              [k \in call.keys \cup {"name", "executable"} |->
                  IF k = "executable" THEN SourcePath(call.src)
                  ELSE OptionValue(k, call.an)])

\* C6: with the config directory present and the scripts directory
\* missing, install_script without force_create_directories raises
\* "not available!" and creates nothing; with it, the directory is created
\* and the link to the source is created at scripts directory /
\* display_name.
C6_MissingDirectory ==
    (ScriptCall /\ pre.configDir /\ pre.scriptsDir = "missing") =>
        IF ~call.fcd
        THEN outcome = DirectoryUnavailable /\ fs = pre
        ELSE /\ fs.scriptsDir = "dir"
             /\ outcome = Ok
             /\ call.dn \in Names
             /\ fs.entries[call.dn] = Link(call.src)

\* C7: install_action on Caja, KDE file manager, PCManFM and Thunar raises
\* NotImplementedError whatever the filesystem holds, an exception of
\* another class than the errors for "not installed" and "not supported",
\* and writes nothing.
C7_NotImplemented ==
    ( /\ call.op = "install_action"
      /\ fm \in {"Caja", "KdefileManager", "PcManFm", "Thunar"} )
    => /\ outcome = NotImplementedError
       /\ outcome.exc \notin
             {NotInstalled.exc, ActionsUnsupported.exc, ScriptsUnsupported.exc}
       /\ fs = pre

\* install_action was called on Caja with no config directory
C7_Witness ==
    /\ call.op = "install_action"
    /\ fm = "Caja"
    /\ ~pre.configDir
    /\ outcome = NotImplementedError

\* C8: is_installed() returns True when the probe exits 0, False when it
\* exits non-zero and False when the executable cannot be started; it
\* raises nothing.
C8_IsInstalledReturnsBoolean ==
    call.op = "is_installed" =>
        /\ outcome.exc = "none"
        /\ outcome.ret = IF call.probe = "exit_zero" THEN "True" ELSE "False"

\* C9: install_script never deletes: every entry of the scripts directory
\* is still there after the call, under its name or, for the link renamed
\* by force_rename_existing, under the display name; the number of entries
\* does not decrease and no entry is replaced.
C9_NeverDeletes ==
    call.op = "install_script" =>
        /\ \A n \in Names :
              pre.entries[n].kind # "none" =>
                  \/ fs.entries[n] = pre.entries[n]
                  \/ /\ call.fre
                     /\ IsSymlink(pre.entries[n])
                     /\ call.dn \in Names
                     /\ pre.entries[call.dn].kind = "none"
                     /\ fs.entries[call.dn] = pre.entries[n]
        /\ Cardinality(Occupied(fs.entries))
              >= Cardinality(Occupied(pre.entries))

\* C10: a call of install_script that raises "not installed", "not
\* supported", "not available" or "already exists" leaves the filesystem
\* as it was; a scripts directory it created is not left behind.
C10_FailureChangesNothing ==
    ( /\ call.op = "install_script"
      /\ outcome \in {NotInstalled, ScriptsUnsupported,
                      DirectoryUnavailable, TargetExists} )
    => fs = pre

====
